---- MODULE Spec2Model ----
(***************************************************************************)
(* A model of the proof search (prove.py) and of the Fitch arranger        *)
(* (fitch.py) of mathsproofbot.                                            *)
(*                                                                         *)
(* Propositions are tuples whose first element is the kind, as in          *)
(* Prop(kind, *args); proof nodes are records with the fields of Proof.    *)
(* The search is the recursion find_proof -> generator -> find_proof, the  *)
(* driver is the loop of prove_proposition, one iteration per step.        *)
(***************************************************************************)
EXTENDS Integers, Sequences, FiniteSets, TLC

\* ---------------------------------------------------------------- bounds
\* largest size the deepening loop and the direct calls try
MaxSize == 9
\* largest number of connectives of a goal handed to prove_proposition
MaxOps == 1
\* largest size of a direct call of find_proof
MaxFindSize == 5
\* largest number of connectives of the goal and the assumptions of a direct
\* call of find_proof, taken together
MaxCallOps == 2
\* largest number of assumptions of a direct call of find_proof
MaxAssumptions == 1

\* tokens of a text handed to chunk_280
MaxTokens == 5

\* characters of a string handed to parse
MaxChars == 4

\* connectives of a proposition handed to str
MaxPrintOps == 2

\* ---------------------------------------------------------------- Prop
Names == {"a", "b"}

Name(x) == <<"name", x>>
Bottom == <<"bottom">>
Not(p) == <<"not", p>>
And(l, r) == <<"and", l, r>>
Or(l, r) == <<"or", l, r>>
Implies(l, r) == <<"implies", l, r>>
Iff(l, r) == <<"iff", l, r>>

BinaryKinds == {"and", "or", "implies", "iff"}

\* Python's None, where a Prop is expected
None == <<"none">>

kind(p) == p[1]
left(p) == p[2]
right(p) == p[3]
contained(p) == p[2]

\* ---------------------------------------------------------------- Proof
\* Python's None, where a Proof is expected
NoProof == [assumption |-> None, subproofs |-> <<>>, claim |-> None, kind |-> "None"]

Proof(assumption, subproofs, claim, proofkind) ==
  [assumption |-> assumption, subproofs |-> subproofs, claim |-> claim, kind |-> proofkind]

reiteration(prop) == Proof(None, <<>>, prop, "reiteration")

\* find_proof's `proof.assumption = assuming`
\* find_proof without the assignment `proof.assumption = assuming`
SetAssumption_dropped(proof, assuming) == proof

SetAssumption(proof, assuming) == [proof EXCEPT !.assumption = assuming]

\* what a generator body returns: Python's None, or a list of subproofs
NoList == <<"None">>
List(subproofs) == <<"list", subproofs>>

\* ---------------------------------------------------------------- util
\* share(n, 2): the ways to split n into two positive parts, smallest
\* first part first
share2(n) == [i \in 1..(IF n >= 2 THEN n - 1 ELSE 0) |-> <<i, n - i>>]

\* other(x, pair): the element of the pair that is not x
other(x, pair) == IF pair[1] = x THEN pair[2] ELSE pair[1]

\* kinded(assumptions, asn_kind)
kinded(assumptions, asn_kind) == SelectSeq(assumptions, LAMBDA asn : kind(asn) = asn_kind)

\* ---------------------------------------------------------------- search
RECURSIVE find_proof(_, _, _, _)
RECURSIVE first_searcher(_, _, _)
RECURSIVE AND_INTRO_loop(_, _, _, _)
RECURSIVE OR_INTRO_loop(_, _, _, _)
RECURSIVE IFF_INTRO_loop(_, _, _, _)
RECURSIVE BOTTOM_INTRO_loop(_, _, _, _)
RECURSIVE OR_ELIM_loop(_, _, _, _, _)
RECURSIVE IMPLIES_ELIM_loop(_, _, _, _)
RECURSIVE IFF_ELIM_loop(_, _, _, _)

\* the proofify decorator: None stays None, a subproof list becomes a node
proofify(proofkind, goal, subproofs) ==
  IF subproofs = NoList THEN NoProof ELSE Proof(None, subproofs[2], goal, proofkind)

\* REITERATION without the look-up in the assumptions
REITERATION_unchecked(prop, assumptions, size) ==
  IF size # 1 THEN NoProof ELSE Proof(None, <<>>, prop, "reiteration")

REITERATION(prop, assumptions, size) ==
  IF size # 1 THEN NoProof
  ELSE IF \E i \in 1..Len(assumptions) : assumptions[i] = prop
       THEN Proof(None, <<>>, prop, "reiteration")
       ELSE NoProof

\* the body of AND_INTRO from the i-th split on; None when the loop ends
AND_INTRO_loop(goal, assumptions, size, i) ==
  IF i > Len(share2(size - 1)) THEN NoList
  ELSE LET lproof == find_proof(left(goal), assumptions, share2(size - 1)[i][1], None)
           rproof == find_proof(right(goal), assumptions, share2(size - 1)[i][2], None)
       IN  IF lproof # NoProof /\ rproof # NoProof
           THEN List(<<lproof, rproof>>)
           ELSE AND_INTRO_loop(goal, assumptions, size, i + 1)

AND_INTRO(goal, assumptions, size) ==
  IF size < 3 THEN NoProof
  ELSE proofify("and-intro", goal,
         IF kind(goal) # "and" THEN NoList ELSE AND_INTRO_loop(goal, assumptions, size, 1))

OR_INTRO_loop(goal, assumptions, size, i) ==
  IF i > Len(share2(size - 1)) THEN NoList
  ELSE LET lproof == find_proof(left(goal), assumptions, share2(size - 1)[i][1], None)
           rproof == find_proof(right(goal), assumptions, share2(size - 1)[i][2], None)
       IN  IF lproof # NoProof THEN List(<<lproof>>)
           ELSE IF rproof # NoProof THEN List(<<rproof>>)
           ELSE OR_INTRO_loop(goal, assumptions, size, i + 1)

OR_INTRO(goal, assumptions, size) ==
  IF size < 2 THEN NoProof
  ELSE proofify("or-intro", goal,
         IF kind(goal) # "or" THEN NoList ELSE OR_INTRO_loop(goal, assumptions, size, 1))

IMPLIES_INTRO(goal, assumptions, size) ==
  IF size < 3 THEN NoProof
  ELSE proofify("implies-intro", goal,
         IF kind(goal) # "implies" THEN NoList
         ELSE LET subproof == find_proof(right(goal), assumptions, size - 2, left(goal))
              IN  IF subproof # NoProof THEN List(<<subproof>>) ELSE NoList)

IFF_INTRO_loop(goal, assumptions, size, i) ==
  IF i > Len(share2(size - 1)) THEN NoList
  ELSE LET ltr_subproof == find_proof(right(goal), assumptions, share2(size - 1)[i][1], left(goal))
           rtl_subproof == find_proof(left(goal), assumptions, share2(size - 1)[i][2], right(goal))
       IN  IF ltr_subproof # NoProof /\ rtl_subproof # NoProof
           THEN List(<<ltr_subproof, rtl_subproof>>)
           ELSE IFF_INTRO_loop(goal, assumptions, size, i + 1)

IFF_INTRO(goal, assumptions, size) ==
  IF size < 5 THEN NoProof
  ELSE proofify("iff-intro", goal,
         IF kind(goal) # "iff" THEN NoList ELSE IFF_INTRO_loop(goal, assumptions, size, 1))

NOT_INTRO(goal, assumptions, size) ==
  IF size < 3 THEN NoProof
  ELSE proofify("not-intro", goal,
         IF kind(goal) # "not" THEN NoList
         ELSE LET subproof == find_proof(Bottom, assumptions, size - 2, contained(goal))
              IN  IF subproof # NoProof THEN List(<<subproof>>) ELSE NoList)

\* the body of BOTTOM_INTRO from the i-th assumption on
BOTTOM_INTRO_loop(goal, assumptions, size, i) ==
  IF i > Len(assumptions) THEN NoList
  ELSE LET prop == assumptions[i]
           prop_proof == reiteration(prop)
       IN  IF /\ kind(prop) = "and"
              /\ (left(prop) = Not(right(prop)) \/ Not(left(prop)) = right(prop))
           THEN List(<< find_proof(left(prop), assumptions, size - 2, None),
                        find_proof(right(prop), assumptions, size - 2, None) >>)
           ELSE IF kind(prop) = "not"
           THEN LET unwrapped_proof == find_proof(contained(prop), assumptions, size - 2, None)
                IN  IF unwrapped_proof # NoProof
                    THEN List(<<unwrapped_proof, prop_proof>>)
                    ELSE BOTTOM_INTRO_loop(goal, assumptions, size, i + 1)
           ELSE LET negated_proof == find_proof(Not(prop), assumptions, size - 2, None)
                IN  IF negated_proof # NoProof
                    THEN List(<<prop_proof, negated_proof>>)
                    ELSE BOTTOM_INTRO_loop(goal, assumptions, size, i + 1)

BOTTOM_INTRO(goal, assumptions, size) ==
  IF size < 3 THEN NoProof
  ELSE proofify("bottom-intro", goal,
         IF kind(goal) # "bottom" THEN NoList ELSE BOTTOM_INTRO_loop(goal, assumptions, size, 1))

AND_ELIM(goal, assumptions, size) ==
  IF size # 1 THEN NoProof
  ELSE proofify("and-elim", goal,
         LET asns == SelectSeq(kinded(assumptions, "and"),
                               LAMBDA asn : goal = left(asn) \/ goal = right(asn))
         IN  IF Len(asns) > 0 THEN List(<<reiteration(asns[1])>>) ELSE NoList)

\* the body of OR_ELIM from the i-th split of the j-th disjunction on
OR_ELIM_loop(goal, assumptions, size, j, i) ==
  IF j > Len(kinded(assumptions, "or")) THEN NoList
  ELSE IF i > Len(share2(size - 4)) THEN OR_ELIM_loop(goal, assumptions, size, j + 1, 1)
  ELSE LET asn == kinded(assumptions, "or")[j]
           lproof == find_proof(goal, assumptions, share2(size - 4)[i][1], left(asn))
           rproof == find_proof(goal, assumptions, share2(size - 4)[i][2], right(asn))
       IN  IF lproof # NoProof /\ rproof # NoProof
           THEN List(<<reiteration(asn), lproof, rproof>>)
           ELSE OR_ELIM_loop(goal, assumptions, size, j, i + 1)

OR_ELIM(goal, assumptions, size) ==
  IF size < 5 THEN NoProof
  ELSE proofify("or-elim", goal, OR_ELIM_loop(goal, assumptions, size, 1, 1))

IMPLIES_ELIM_loop(goal, assumptions, size, j) ==
  IF j > Len(kinded(assumptions, "implies")) THEN NoList
  ELSE LET asn == kinded(assumptions, "implies")[j]
       IN  IF right(asn) = goal
           THEN LET left_proof == find_proof(left(asn), assumptions, size - 2, None)
                IN  IF left_proof # NoProof
                    THEN List(<<reiteration(asn), left_proof>>)
                    ELSE IMPLIES_ELIM_loop(goal, assumptions, size, j + 1)
           ELSE IMPLIES_ELIM_loop(goal, assumptions, size, j + 1)

IMPLIES_ELIM(goal, assumptions, size) ==
  IF size < 3 THEN NoProof
  ELSE proofify("implies-elim", goal, IMPLIES_ELIM_loop(goal, assumptions, size, 1))

IFF_ELIM_loop(goal, assumptions, size, j) ==
  IF j > Len(kinded(assumptions, "iff")) THEN NoList
  ELSE LET asn == kinded(assumptions, "iff")[j]
           has_goal == goal = left(asn) \/ goal = right(asn)
       IN  IF has_goal
           THEN LET other_side == other(goal, <<left(asn), right(asn)>>)
                    other_proof == find_proof(other_side, assumptions, size - 2, None)
                IN  IF other_proof # NoProof
                    THEN List(<<reiteration(asn), other_proof>>)
                    ELSE IFF_ELIM_loop(goal, assumptions, size, j + 1)
           ELSE IFF_ELIM_loop(goal, assumptions, size, j + 1)

IFF_ELIM(goal, assumptions, size) ==
  IF size < 3 THEN NoProof
  ELSE proofify("iff-elim", goal, IFF_ELIM_loop(goal, assumptions, size, 1))

\* NOT_ELIM that strips a single negation
NOT_ELIM_single(prop, assumptions, size) ==
  IF size < 2 THEN NoProof
  ELSE proofify("not-elim", prop,
         LET not_proof == find_proof(Not(prop), assumptions, size - 1, None)
         IN  IF not_proof # NoProof THEN List(<<not_proof>>) ELSE NoList)

NOT_ELIM(prop, assumptions, size) ==
  IF size < 2 THEN NoProof
  ELSE proofify("not-elim", prop,
         LET notnot_proof == find_proof(Not(Not(prop)), assumptions, size - 1, None)
         IN  IF notnot_proof # NoProof THEN List(<<notnot_proof>>) ELSE NoList)

\* `for searcher in searchers: proof = searcher(...); if proof is not None:
\* return proof`, the searchers tried in the order of the tuple
first_searcher(prop, assumptions, size) ==
  LET p01 == REITERATION(prop, assumptions, size)
      p02 == AND_INTRO(prop, assumptions, size)
      p03 == AND_ELIM(prop, assumptions, size)
      p04 == OR_INTRO(prop, assumptions, size)
      p05 == OR_ELIM(prop, assumptions, size)
      p06 == IMPLIES_INTRO(prop, assumptions, size)
      p07 == IMPLIES_ELIM(prop, assumptions, size)
      p08 == IFF_INTRO(prop, assumptions, size)
      p09 == IFF_ELIM(prop, assumptions, size)
      p10 == BOTTOM_INTRO(prop, assumptions, size)
      p11 == NOT_INTRO(prop, assumptions, size)
      p12 == NOT_ELIM(prop, assumptions, size)
      searchers == 1..12
      result(k) == CASE k = 1 -> p01 [] k = 2 -> p02 [] k = 3 -> p03 [] k = 4 -> p04
                     [] k = 5 -> p05 [] k = 6 -> p06 [] k = 7 -> p07 [] k = 8 -> p08
                     [] k = 9 -> p09 [] k = 10 -> p10 [] k = 11 -> p11 [] k = 12 -> p12
      first == {k \in searchers : /\ \A j \in 1..(k - 1) : result(j) = NoProof
                                  /\ result(k) # NoProof}
  IN  IF first = {} THEN NoProof ELSE result(CHOOSE k \in first : TRUE)

\* find_proof searching under `assumptions` alone, `assuming` left out of scope
find_proof_unextended(prop, assumptions, size, assuming) ==
  IF size <= 0 THEN NoProof
  ELSE IF assuming # None
  THEN LET proof == first_searcher(prop, assumptions, size)
       IN  IF proof # NoProof THEN SetAssumption(proof, assuming) ELSE NoProof
  ELSE first_searcher(prop, assumptions, size)

find_proof(prop, assumptions, size, assuming) ==
  IF size <= 0 THEN NoProof
  ELSE IF assuming # None
  THEN LET proof == first_searcher(prop, Append(assumptions, assuming), size)
       IN  IF proof # NoProof THEN SetAssumption(proof, assuming) ELSE NoProof
  ELSE first_searcher(prop, assumptions, size)

\* the k-th generator in the order Reiteration, AndIntro, AndElim, OrIntro,
\* OrElim, ImpliesIntro, ImpliesElim, IffIntro, IffElim, BottomIntro,
\* NotIntro, NotElim, applied to a goal
generator(k, goal, asns, s) ==
  CASE k = 1  -> REITERATION(goal, asns, s)
    [] k = 2  -> AND_INTRO(goal, asns, s)
    [] k = 3  -> AND_ELIM(goal, asns, s)
    [] k = 4  -> OR_INTRO(goal, asns, s)
    [] k = 5  -> OR_ELIM(goal, asns, s)
    [] k = 6  -> IMPLIES_INTRO(goal, asns, s)
    [] k = 7  -> IMPLIES_ELIM(goal, asns, s)
    [] k = 8  -> IFF_INTRO(goal, asns, s)
    [] k = 9  -> IFF_ELIM(goal, asns, s)
    [] k = 10 -> BOTTOM_INTRO(goal, asns, s)
    [] k = 11 -> NOT_INTRO(goal, asns, s)
    [] k = 12 -> NOT_ELIM(goal, asns, s)


\* ------------------------------------------------ the calls a search makes
\* one call find_proof(prop, assumptions, size, assuming=assuming)
Call(prop, assumptions, size, assuming) ==
  [prop |-> prop, assumptions |-> assumptions, size |-> size, assuming |-> assuming]

\* what the call returns
result(call) == find_proof(call.prop, call.assumptions, call.size, call.assuming)

\* one pass through the body of a for loop: the calls to find_proof it makes,
\* in order, and when it ends in a `return`: "if all" of the calls return a
\* proof, "if any" does, "always" or "never"
Iteration(calls, returns) == [calls |-> calls, returns |-> returns]

\* whether the pass ends in a `return`
ends_in_return(iteration) ==
  CASE iteration.returns = "if all" ->
         \A i \in 1..Len(iteration.calls) : result(iteration.calls[i]) # NoProof
    [] iteration.returns = "if any" ->
         \E i \in 1..Len(iteration.calls) : result(iteration.calls[i]) # NoProof
    [] iteration.returns = "always" -> TRUE
    [] iteration.returns = "never" -> FALSE

RECURSIVE until_return(_, _)
\* the calls of a for loop from its i-th pass on, up to the pass that returns
until_return(iterations, i) ==
  IF i > Len(iterations) THEN <<>>
  ELSE iterations[i].calls
       \o (IF ends_in_return(iterations[i]) THEN <<>> ELSE until_return(iterations, i + 1))

AND_INTRO_calls(goal, assumptions, size) ==
  IF size < 3 \/ kind(goal) # "and" THEN <<>>
  ELSE until_return(
         [i \in 1..Len(share2(size - 1)) |->
            LET lproof == Call(left(goal), assumptions, share2(size - 1)[i][1], None)
                rproof == Call(right(goal), assumptions, share2(size - 1)[i][2], None)
            IN  Iteration(<<lproof, rproof>>, "if all")], 1)

OR_INTRO_calls(goal, assumptions, size) ==
  IF size < 2 \/ kind(goal) # "or" THEN <<>>
  ELSE until_return(
         [i \in 1..Len(share2(size - 1)) |->
            LET lproof == Call(left(goal), assumptions, share2(size - 1)[i][1], None)
                rproof == Call(right(goal), assumptions, share2(size - 1)[i][2], None)
            IN  Iteration(<<lproof, rproof>>, "if any")], 1)

IMPLIES_INTRO_calls(goal, assumptions, size) ==
  IF size < 3 \/ kind(goal) # "implies" THEN <<>>
  ELSE <<Call(right(goal), assumptions, size - 2, left(goal))>>

IFF_INTRO_calls(goal, assumptions, size) ==
  IF size < 5 \/ kind(goal) # "iff" THEN <<>>
  ELSE until_return(
         [i \in 1..Len(share2(size - 1)) |->
            LET ltr_subproof == Call(right(goal), assumptions, share2(size - 1)[i][1], left(goal))
                rtl_subproof == Call(left(goal), assumptions, share2(size - 1)[i][2], right(goal))
            IN  Iteration(<<ltr_subproof, rtl_subproof>>, "if all")], 1)

NOT_INTRO_calls(goal, assumptions, size) ==
  IF size < 3 \/ kind(goal) # "not" THEN <<>>
  ELSE <<Call(Bottom, assumptions, size - 2, contained(goal))>>

BOTTOM_INTRO_calls(goal, assumptions, size) ==
  IF size < 3 \/ kind(goal) # "bottom" THEN <<>>
  ELSE until_return(
         [i \in 1..Len(assumptions) |->
            LET prop == assumptions[i]
                lproof == Call(left(prop), assumptions, size - 2, None)
                rproof == Call(right(prop), assumptions, size - 2, None)
                unwrapped_proof == Call(contained(prop), assumptions, size - 2, None)
                negated_proof == Call(Not(prop), assumptions, size - 2, None)
            IN  IF /\ kind(prop) = "and"
                   /\ (left(prop) = Not(right(prop)) \/ Not(left(prop)) = right(prop))
                THEN Iteration(<<lproof, rproof>>, "always")
                ELSE IF kind(prop) = "not"
                THEN Iteration(<<unwrapped_proof>>, "if all")
                ELSE Iteration(<<negated_proof>>, "if all")], 1)

OR_ELIM_calls(goal, assumptions, size) ==
  IF size < 5 THEN <<>>
  ELSE LET asns == kinded(assumptions, "or")
           splits == share2(size - 4)
       IN  until_return(
             [n \in 1..(Len(asns) * Len(splits)) |->
                LET asn == asns[((n - 1) \div Len(splits)) + 1]
                    i == ((n - 1) % Len(splits)) + 1
                    lproof == Call(goal, assumptions, splits[i][1], left(asn))
                    rproof == Call(goal, assumptions, splits[i][2], right(asn))
                IN  Iteration(<<lproof, rproof>>, "if all")], 1)

IMPLIES_ELIM_calls(goal, assumptions, size) ==
  IF size < 3 THEN <<>>
  ELSE until_return(
         [j \in 1..Len(kinded(assumptions, "implies")) |->
            LET asn == kinded(assumptions, "implies")[j]
                left_proof == Call(left(asn), assumptions, size - 2, None)
            IN  IF right(asn) = goal
                THEN Iteration(<<left_proof>>, "if all")
                ELSE Iteration(<<>>, "never")], 1)

IFF_ELIM_calls(goal, assumptions, size) ==
  IF size < 3 THEN <<>>
  ELSE until_return(
         [j \in 1..Len(kinded(assumptions, "iff")) |->
            LET asn == kinded(assumptions, "iff")[j]
                has_goal == goal = left(asn) \/ goal = right(asn)
                other_side == other(goal, <<left(asn), right(asn)>>)
                other_proof == Call(other_side, assumptions, size - 2, None)
            IN  IF has_goal
                THEN Iteration(<<other_proof>>, "if all")
                ELSE Iteration(<<>>, "never")], 1)

\* NOT_ELIM passing its own size on to find_proof
NOT_ELIM_calls_same_size(prop, assumptions, size) ==
  IF size < 2 THEN <<>> ELSE <<Call(Not(Not(prop)), assumptions, size, None)>>

NOT_ELIM_calls(prop, assumptions, size) ==
  IF size < 2 THEN <<>> ELSE <<Call(Not(Not(prop)), assumptions, size - 1, None)>>

\* the calls to find_proof that the k-th searcher makes; REITERATION and
\* AND_ELIM make none
searcher_calls(k, goal, asns, s) ==
  CASE k = 2  -> AND_INTRO_calls(goal, asns, s)
    [] k = 4  -> OR_INTRO_calls(goal, asns, s)
    [] k = 5  -> OR_ELIM_calls(goal, asns, s)
    [] k = 6  -> IMPLIES_INTRO_calls(goal, asns, s)
    [] k = 7  -> IMPLIES_ELIM_calls(goal, asns, s)
    [] k = 8  -> IFF_INTRO_calls(goal, asns, s)
    [] k = 9  -> IFF_ELIM_calls(goal, asns, s)
    [] k = 10 -> BOTTOM_INTRO_calls(goal, asns, s)
    [] k = 11 -> NOT_INTRO_calls(goal, asns, s)
    [] k = 12 -> NOT_ELIM_calls(goal, asns, s)
    [] OTHER  -> <<>>

\* the searchers that find_proof calls: none when size <= 0, else those of the
\* tuple up to the first that returns a proof
searchers_called(prop, assumptions, size, assuming) ==
  IF size <= 0 THEN {}
  ELSE LET scope == IF assuming # None THEN Append(assumptions, assuming) ELSE assumptions
       IN  {k \in 1..12 : \A j \in 1..(k - 1) : generator(j, prop, scope, size) = NoProof}

\* the kind of the proofs of the k-th searcher (Proof.reiteration, @proofify)
searcher_kind(k) ==
  CASE k = 1  -> "reiteration"   [] k = 2  -> "and-intro"     [] k = 3  -> "and-elim"
    [] k = 4  -> "or-intro"      [] k = 5  -> "or-elim"       [] k = 6  -> "implies-intro"
    [] k = 7  -> "implies-elim"  [] k = 8  -> "iff-intro"     [] k = 9  -> "iff-elim"
    [] k = 10 -> "bottom-intro"  [] k = 11 -> "not-intro"     [] k = 12 -> "not-elim"

RECURSIVE searchers_until_return(_, _, _, _)
\* the calls made by the searchers of the tuple from the k-th on, up to the
\* searcher that returns a proof: the one whose proof the loop returns
searchers_until_return(k, goal, asns, s) ==
  IF k > 12 THEN <<>>
  ELSE searcher_calls(k, goal, asns, s)
       \o (IF find_proof(goal, asns, s, None).kind = searcher_kind(k) THEN <<>>
           ELSE searchers_until_return(k + 1, goal, asns, s))

\* the calls to find_proof made, in order, while one call of find_proof runs
find_proof_calls(prop, assumptions, size, assuming) ==
  IF size <= 0 THEN <<>>
  ELSE searchers_until_return(
         1, prop, IF assuming # None THEN Append(assumptions, assuming) ELSE assumptions,
         size)

\* ---------------------------------------------------------------- fitch
Stmt(prereqs, claim, rule, lineno) ==
  [type |-> "Stmt", prereqs |-> prereqs, claim |-> claim, rule |-> rule, lineno |-> lineno]

Bunch(body) == [type |-> "Bunch", body |-> body]

Block(assumption, body) == [type |-> "Block", assumption |-> assumption, body |-> body]

\* arrange_aux does not return: `subproof.claim` of a None subproof raises
AttributeError == [type |-> "AttributeError"]

\* no arrangement yet
NoFitch == [type |-> "None"]

RECURSIVE stmt_count(_)
RECURSIVE body_count(_, _)
\* stmt_count of the lines body[i..]
body_count(body, i) ==
  IF i > Len(body) THEN 0 ELSE stmt_count(body[i]) + body_count(body, i + 1)

\* Block.stmt_count without the 1 for the assumption
stmt_count_body_only(line) ==
  CASE line.type = "Stmt"  -> 1
    [] line.type = "Bunch" -> body_count(line.body, 1)
    [] line.type = "Block" -> body_count(line.body, 1)

\* the stmt_count property of Stmt, Bunch and Block
stmt_count(line) ==
  CASE line.type = "Stmt"  -> 1
    [] line.type = "Bunch" -> body_count(line.body, 1)
    [] line.type = "Block" -> 1 + body_count(line.body, 1)

RECURSIVE span_hi(_)
\* Block.span's `while isinstance(hi, Block): hi = hi.body[-1]`, then .lineno
span_hi(hi) ==
  IF hi.type = "Block" THEN span_hi(hi.body[Len(hi.body)]) ELSE hi.lineno

\* the span property: <<lineno>> for a Stmt, <<lo, hi>> for a Block
span(line) ==
  IF line.type = "Stmt" THEN <<line.lineno>>
  ELSE <<line.assumption.lineno, span_hi(line)>>

RECURSIVE flatten(_, _)
\* the statements of context[i..], those inside its blocks included
flatten(context, i) ==
  IF i > Len(context) THEN <<>>
  ELSE (IF context[i].type = "Stmt" THEN <<context[i]>>
        ELSE <<context[i].assumption>> \o flatten(context[i].body, 1))
       \o flatten(context, i + 1)

\* find that also looks into the blocks of the context
find_in_blocks(claim, context) ==
  LET all == flatten(context, 1)
      hits == {i \in 1..Len(all) : all[i].claim = claim}
  IN  IF hits = {} THEN NoFitch ELSE all[CHOOSE i \in hits : \A j \in hits : i <= j]

\* a find that finds nothing
find_never(claim, context) == NoFitch

\* find(lambda line: isinstance(line, Stmt) and line.claim == claim, context):
\* the first match, NoFitch for None
find(claim, context) ==
  LET hits == {i \in 1..Len(context) : context[i].type = "Stmt" /\ context[i].claim = claim}
  IN  IF hits = {} THEN NoFitch ELSE context[CHOOSE i \in hits : \A j \in hits : i <= j]

RECURSIVE arrange_aux(_, _, _)
RECURSIVE arrange_loop(_, _, _, _)

\* the loop of arrange_aux with a fatal error for a reiteration whose claim
\* is on no visible line
arrange_loop_fatal(subproofs, i, parent_context, st) ==
  IF i > Len(subproofs) THEN st
  ELSE IF subproofs[i] = NoProof THEN AttributeError
  ELSE LET subproof == subproofs[i]
           context == parent_context \o st.lines
           existing_line == find(subproof.claim, context)
       IN  IF existing_line.type # "None"
           THEN arrange_loop(subproofs, i + 1, parent_context,
                             [st EXCEPT !.prereqs = Append(@, existing_line)])
           ELSE IF subproof.kind = "reiteration" THEN AttributeError
           ELSE LET sub == arrange_aux(subproof, context, st.lineno)
                IN  IF sub.type = "AttributeError" THEN AttributeError
                    ELSE IF subproof.assumption = None
                    THEN arrange_loop(subproofs, i + 1, parent_context,
                           [lines |-> st.lines \o sub.body,
                            prereqs |-> Append(st.prereqs, sub.body[Len(sub.body)]),
                            lineno |-> st.lineno + stmt_count(sub)])
                    ELSE arrange_loop(subproofs, i + 1, parent_context,
                           [lines |-> Append(st.lines, sub),
                            prereqs |-> Append(st.prereqs, sub),
                            lineno |-> st.lineno + stmt_count(sub)])

\* `for subproof in proof.subproofs` from the i-th subproof on; st holds the
\* locals lines, prereqs and lineno
arrange_loop(subproofs, i, parent_context, st) ==
  IF i > Len(subproofs) THEN st
  ELSE IF subproofs[i] = NoProof THEN AttributeError
  ELSE LET subproof == subproofs[i]
           context == parent_context \o st.lines
           existing_line == find(subproof.claim, context)
       IN  IF existing_line.type # "None"
           THEN arrange_loop(subproofs, i + 1, parent_context,
                             [st EXCEPT !.prereqs = Append(@, existing_line)])
           ELSE LET sub == arrange_aux(subproof, context, st.lineno)
                IN  IF sub.type = "AttributeError" THEN AttributeError
                    ELSE IF subproof.assumption = None
                    THEN arrange_loop(subproofs, i + 1, parent_context,
                           [lines |-> st.lines \o sub.body,
                            prereqs |-> Append(st.prereqs, sub.body[Len(sub.body)]),
                            lineno |-> st.lineno + stmt_count(sub)])
                    ELSE arrange_loop(subproofs, i + 1, parent_context,
                           [lines |-> Append(st.lines, sub),
                            prereqs |-> Append(st.prereqs, sub),
                            lineno |-> st.lineno + stmt_count(sub)])

\* arrange_aux whose final statement got the rule of the assumption statement
arrange_aux_rule_copied(proof_, parent_context, lineno) ==
  LET block_assumption == Stmt(<<>>, proof_.assumption, "assumption", lineno)
      st0 == IF proof_.assumption # None
             THEN [lines |-> <<block_assumption>>, prereqs |-> <<>>, lineno |-> lineno + 1]
             ELSE [lines |-> <<>>, prereqs |-> <<>>, lineno |-> lineno]
      st == arrange_loop(proof_.subproofs, 1, parent_context, st0)
  IN  IF "type" \in DOMAIN st THEN AttributeError
      ELSE LET stmt == Stmt(st.prereqs, proof_.claim, "assumption", st.lineno)
               lines == Append(st.lines, stmt)
           IN  IF proof_.assumption = None
               THEN Bunch(lines)
               ELSE Block(block_assumption, Tail(lines))

arrange_aux(proof_, parent_context, lineno) ==
  LET block_assumption == Stmt(<<>>, proof_.assumption, "assumption", lineno)
      st0 == IF proof_.assumption # None
             THEN [lines |-> <<block_assumption>>, prereqs |-> <<>>, lineno |-> lineno + 1]
             ELSE [lines |-> <<>>, prereqs |-> <<>>, lineno |-> lineno]
      st == arrange_loop(proof_.subproofs, 1, parent_context, st0)
  IN  IF "type" \in DOMAIN st THEN AttributeError
      ELSE LET stmt == Stmt(st.prereqs, proof_.claim, proof_.kind, st.lineno)
               lines == Append(st.lines, stmt)
           IN  IF proof_.assumption = None
               THEN Bunch(lines)
               ELSE Block(block_assumption, Tail(lines))

arrange(proof_) == arrange_aux(proof_, <<>>, 1)

\* ---------------------------------------------------------------- pretty
pretty_IMPLIES == ">"
pretty_IFF == "="
pretty_OR == "|"
pretty_AND == "&"
pretty_NOT == "-"
pretty_BOTTOM == "#"

\* the pretty property of ProofKind
rule_pretty(rule) ==
  CASE rule = "reiteration"   -> "re"
    [] rule = "or-intro"      -> pretty_OR \o "I"
    [] rule = "or-elim"       -> pretty_OR \o "E"
    [] rule = "and-intro"     -> pretty_AND \o "I"
    [] rule = "and-elim"      -> pretty_AND \o "E"
    [] rule = "not-intro"     -> pretty_NOT \o "I"
    [] rule = "not-elim"      -> pretty_NOT \o "E"
    [] rule = "bottom-intro"  -> pretty_BOTTOM \o "I"
    [] rule = "bottom-elim"   -> pretty_BOTTOM \o "E"
    [] rule = "implies-intro" -> pretty_IMPLIES \o "I"
    [] rule = "implies-elim"  -> pretty_IMPLIES \o "E"
    [] rule = "iff-intro"     -> pretty_IFF \o "I"
    [] rule = "iff-elim"      -> pretty_IFF \o "E"
    [] rule = "assumption"    -> "as"

RECURSIVE pretty(_, _)
RECURSIVE pretty_body(_, _, _)
\* the printed lines of body[i..], each under `bars` vertical bars
pretty_body(body, i, bars) ==
  IF i > Len(body) THEN <<>> ELSE pretty(body[i], bars) \o pretty_body(body, i + 1, bars)

\* the pretty property of Stmt, Bunch and Block: the numbered lines that are
\* printed, top to bottom.  A line `N. claim  [rule:cites]` drawn to the right
\* of `bars` vertical bars is the record of its parts; cites holds the span of
\* each prereq, <<N>> or <<N, M>> for N-M
pretty(line, bars) ==
  CASE line.type = "Stmt" ->
         << [lineno |-> line.lineno, claim |-> line.claim, rule |-> rule_pretty(line.rule),
             cites |-> [k \in 1..Len(line.prereqs) |-> span(line.prereqs[k])],
             bars |-> bars] >>
    [] line.type = "Bunch" -> pretty_body(line.body, 1, bars)
    [] line.type = "Block" ->
         pretty(line.assumption, bars + 1) \o pretty_body(line.body, 1, bars + 1)

\* ---------------------------------------------------------------- inputs
RECURSIVE PropsWith(_)
\* the propositions with exactly n connectives over Names and bottom
PropsWith(n) ==
  IF n = 0 THEN {Name(x) : x \in Names} \cup {Bottom}
  ELSE {Not(p) : p \in PropsWith(n - 1)}
       \cup UNION { UNION { {<<k, l, r>> : l \in PropsWith(i), r \in PropsWith(n - 1 - i)}
                            : i \in 0..(n - 1) } : k \in BinaryKinds }

PropsUpTo(n) == UNION {PropsWith(i) : i \in 0..n}

\* ---------------------------------------------------------------- state
VARIABLES pc, prop, assumptions, assuming, stack, size, proof, fitch,
          string, printed, tweet_id, response, lines, replies

vars == <<pc, prop, assumptions, assuming, stack, size, proof, fitch,
          string, printed, tweet_id, response, lines, replies>>

\* the text being parsed and the text printed
text_vars == <<string, printed>>

\* the locals of prove_tweet, long_reply_to_tweet and chunk_280, and the
\* replies posted so far
tweet_vars == <<tweet_id, response, lines, replies>>

\* nothing is being parsed or printed
NoText == string = <<>> /\ printed = <<>>

\* no tweet is being answered
NoTweet ==
  /\ tweet_id = 0
  /\ response = None
  /\ lines = None
  /\ replies = <<>>

\* the end-to-end scenarios of the specification and the examples of the
\* docstrings of prove.py, fitch.py and main.py
Scenarios ==
  LET a == Name("a")
      b == Name("b")
      c == Name("c")
  IN  { Implies(a, a),
        Not(And(a, Not(a))),
        Implies(a, Not(Not(a))),
        Implies(And(Implies(a, b), Implies(b, c)), Implies(a, c)),
        Implies(Iff(a, b), Iff(b, a)),
        Implies(And(Implies(a, b), Implies(b, a)), Iff(a, b)),
        Implies(Not(a), Implies(a, b)),
        Implies(a, Implies(b, a)),
        Implies(a, And(Or(a, b), Or(a, b))),
        Implies(a, And(a, Or(a, a))),
        Not(Implies(a, Not(a))) }

\* prove_proposition(prop) is entered: size = 1
Init ==
  /\ pc = "loop"
  /\ prop \in PropsUpTo(MaxOps) \cup Scenarios
  /\ assumptions = <<>>
  /\ assuming = None
  /\ stack = <<>>
  /\ size = 1
  /\ proof = NoProof
  /\ fitch = NoFitch
  /\ NoText
  /\ NoTweet

\* an iteration that finds nothing and steps over the next size
Deepen_skipping ==
  /\ pc = "loop"
  /\ size < MaxSize
  /\ find_proof(prop, <<>>, size, None) = NoProof
  /\ size' = size + 2
  /\ UNCHANGED <<pc, prop, assumptions, assuming, stack, proof, fitch>>
  /\ UNCHANGED <<text_vars, tweet_vars>>

\* one iteration of `while True` that finds nothing: size += 1
Deepen ==
  /\ pc = "loop"
  /\ size < MaxSize
  /\ find_proof(prop, <<>>, size, None) = NoProof
  /\ size' = size + 1
  /\ UNCHANGED <<pc, prop, assumptions, assuming, stack, proof, fitch>>
  /\ UNCHANGED <<text_vars, tweet_vars>>

\* the iteration that finds a proof: return proof
Return ==
  /\ pc = "loop"
  /\ LET found == find_proof(prop, <<>>, size, None)
     IN  /\ found # NoProof
         /\ proof' = found
  /\ pc' = "returned"
  /\ UNCHANGED <<prop, assumptions, assuming, stack, size, fitch>>
  /\ UNCHANGED <<text_vars, tweet_vars>>

\* fitch = arrange(proof), as main.prove and fitch.pretty_print do
Arrange ==
  /\ pc = "returned"
  /\ fitch' = arrange(proof)
  /\ pc' = IF fitch'.type = "AttributeError" THEN "raised" ELSE "arranged"
  /\ UNCHANGED <<prop, assumptions, assuming, stack, size, proof>>
  /\ UNCHANGED <<text_vars, tweet_vars>>

Next == Deepen \/ Return \/ Arrange

Spec == Init /\ [][Next]_vars

\* ------------------------------------------------- find_proof called directly
RECURSIVE ListsWithin(_, _)
\* the lists of at most len propositions with at most n connectives in all
ListsWithin(len, n) ==
  IF len = 0 THEN {<<>>}
  ELSE {<<>>} \cup UNION { {<<x>> \o l : x \in PropsWith(i), l \in ListsWithin(len - 1, n - i)}
                           : i \in 0..n }

\* the arguments <<prop, assumptions>> of the direct calls: at most ops
\* connectives in all
CallInputs(ops) ==
  UNION { {<<g, l>> : g \in PropsWith(i), l \in ListsWithin(MaxAssumptions, ops - i)}
          : i \in 0..ops }

\* a caller is about to call find_proof(prop, assumptions, size)
InitFind ==
  /\ pc = "call"
  /\ \E c \in CallInputs(MaxCallOps) : prop = c[1] /\ assumptions = c[2]
  /\ assuming = None
  /\ stack = <<>>
  /\ size \in 1..MaxFindSize
  /\ proof = NoProof
  /\ fitch = NoFitch
  /\ NoText
  /\ NoTweet

\* the call returns a proof
FindSome ==
  /\ pc = "call"
  /\ LET found == find_proof(prop, assumptions, size, None)
     IN  /\ found # NoProof
         /\ proof' = found
  /\ pc' = "returned"
  /\ UNCHANGED <<prop, assumptions, assuming, stack, size, fitch>>
  /\ UNCHANGED <<text_vars, tweet_vars>>

\* the call returns None
FindNone ==
  /\ pc = "call"
  /\ find_proof(prop, assumptions, size, None) = NoProof
  /\ pc' = "none"
  /\ UNCHANGED <<prop, assumptions, assuming, stack, size, proof, fitch>>
  /\ UNCHANGED <<text_vars, tweet_vars>>

NextFind == FindSome \/ FindNone \/ Arrange

SpecFind == InitFind /\ [][NextFind]_vars

\* ------------------------------------------- find_proof called with `assuming`
\* a caller is about to call find_proof(prop, assumptions, size, assuming=F)
InitAssuming ==
  /\ pc = "call"
  /\ \E c \in CallInputs(MaxOps) : prop = c[1] /\ assumptions = c[2]
  /\ assuming \in PropsUpTo(MaxOps)
  /\ stack = <<>>
  /\ size \in 1..MaxFindSize
  /\ proof = NoProof
  /\ fitch = NoFitch
  /\ NoText
  /\ NoTweet

\* the call returns a proof
AssumingSome ==
  /\ pc = "call"
  /\ LET found == find_proof(prop, assumptions, size, assuming)
     IN  /\ found # NoProof
         /\ proof' = found
  /\ pc' = "returned"
  /\ UNCHANGED <<prop, assumptions, assuming, stack, size, fitch>>
  /\ UNCHANGED <<text_vars, tweet_vars>>

\* the call returns None
AssumingNone ==
  /\ pc = "call"
  /\ find_proof(prop, assumptions, size, assuming) = NoProof
  /\ pc' = "none"
  /\ UNCHANGED <<prop, assumptions, assuming, stack, size, proof, fitch>>
  /\ UNCHANGED <<text_vars, tweet_vars>>

NextAssuming == AssumingSome \/ AssumingNone

SpecAssuming == InitAssuming /\ [][NextAssuming]_vars

\* -------------------------------------------- find_proof, call by call
\* a call that has begun: the calls to find_proof it makes while it runs, and
\* how many of them have returned
Frame(call) ==
  [call |-> call,
   calls |-> find_proof_calls(call.prop, call.assumptions, call.size, call.assuming),
   at |-> 0]

\* the call that is running: the last one begun and not yet returned
running == stack[Len(stack)]

\* a caller has just called find_proof(prop, assumptions, size)
InitCalls ==
  /\ pc = "call"
  /\ \E c \in CallInputs(MaxOps) : prop = c[1] /\ assumptions = c[2]
  /\ assuming = None
  /\ size \in -1..MaxFindSize
  /\ stack = <<Frame(Call(prop, assumptions, size, assuming))>>
  /\ proof = NoProof
  /\ fitch = NoFitch
  /\ NoText
  /\ NoTweet

\* a searcher of the running call calls find_proof; the calls are nested at
\* most MaxFindSize + 1 deep
Recurse ==
  /\ stack # <<>>
  /\ Len(stack) <= MaxFindSize
  /\ running.at < Len(running.calls)
  /\ stack' = Append(stack, Frame(running.calls[running.at + 1]))
  /\ UNCHANGED <<pc, prop, assumptions, assuming, size, proof, fitch>>
  /\ UNCHANGED <<text_vars, tweet_vars>>

\* the running call has made all its calls and returns to the searcher that
\* called it
ReturnToSearcher ==
  /\ Len(stack) > 1
  /\ running.at = Len(running.calls)
  /\ stack' = [SubSeq(stack, 1, Len(stack) - 1)
                 EXCEPT ![Len(stack) - 1].at = @ + 1]
  /\ UNCHANGED <<pc, prop, assumptions, assuming, size, proof, fitch>>
  /\ UNCHANGED <<text_vars, tweet_vars>>

\* the outermost call returns to its caller
ReturnToCaller ==
  /\ Len(stack) = 1
  /\ running.at = Len(running.calls)
  /\ stack' = <<>>
  /\ proof' = result(running.call)
  /\ pc' = IF proof' = NoProof THEN "none" ELSE "returned"
  /\ UNCHANGED <<prop, assumptions, assuming, size, fitch>>
  /\ UNCHANGED <<text_vars, tweet_vars>>

NextCalls == Recurse \/ ReturnToSearcher \/ ReturnToCaller

SpecCalls == InitCalls /\ [][NextCalls]_vars

\* ------------------------------------------------------ main.prove(string)
\* def prove_proposition(prop): the parameters, none with a default
prove_proposition_parameters == <<"prop">>

\* the cap main.prove passes
max_size == 25

\* the keyword arguments of the call prove_proposition(proposition, max_size=25)
prove_keywords == [max_size |-> max_size]

\* Python binds the arguments of a call to parameters without defaults:
\* the positional ones to the first parameters, each keyword to a remaining
\* parameter of its name, and no parameter is left over
binds(parameters, positional, keywords) ==
  /\ positional <= Len(parameters)
  /\ \A k \in DOMAIN keywords :
       \E i \in (positional + 1)..Len(parameters) : parameters[i] = k
  /\ \A i \in (positional + 1)..Len(parameters) : parameters[i] \in DOMAIN keywords

\* prove(string) is entered with the proposition parsed from string
InitProve ==
  /\ pc = "prove"
  /\ prop \in PropsUpTo(MaxOps) \cup Scenarios
  /\ assumptions = <<>>
  /\ assuming = None
  /\ stack = <<>>
  /\ size = 1
  /\ proof = NoProof
  /\ fitch = NoFitch
  /\ NoText
  /\ NoTweet

\* proof = prove_proposition(proposition, max_size=25): the call raises
\* TypeError when the arguments do not bind, else the driver is entered
ProveCall ==
  /\ pc = "prove"
  /\ pc' = IF binds(prove_proposition_parameters, 1, prove_keywords)
           THEN "loop" ELSE "TypeError"
  /\ UNCHANGED <<prop, assumptions, assuming, stack, size, proof, fitch>>
  /\ UNCHANGED <<text_vars, tweet_vars>>

NextProve == ProveCall

SpecProve == InitProve /\ [][NextProve]_vars

\* ------------------------------------------------------------ twitter.py
\* A text is the sequence of its tokens: the newline "\n", or a word, a run
\* of bytes holding no newline.
words == {"w1", "w139", "w140", "Proof:"}

\* the limit of one tweet
tweet_limit == 280

\* len(bytes(token, encoding='utf-8'))
token_blen(token) ==
  CASE token = "\n"     -> 1
    [] token = "w1"     -> 1
    [] token = "w139"   -> 139
    [] token = "w140"   -> 140
    [] token = "Proof:" -> 6

RECURSIVE blen(_)
\* blen(string): the number of bytes of the text
blen(text) ==
  IF text = <<>> THEN 0 ELSE token_blen(Head(text)) + blen(Tail(text))

RECURSIVE split(_)
\* string.split('\n'): the lines of the text, one more than its newlines
split(text) ==
  IF \A i \in DOMAIN text : text[i] # "\n"
  THEN <<text>>
  ELSE LET i == CHOOSE j \in DOMAIN text :
                  /\ text[j] = "\n"
                  /\ \A k \in 1..(j - 1) : text[k] # "\n"
       IN  <<SubSeq(text, 1, i - 1)>> \o split(SubSeq(text, i + 1, Len(text)))

RECURSIVE join(_)
\* '\n'.join(texts)
join(texts) ==
  IF texts = <<>> THEN <<>>
  ELSE IF Len(texts) = 1 THEN texts[1]
  ELSE texts[1] \o <<"\n">> \o join(Tail(texts))

\* any(blen(line) > 280 for line in lines)
any_long(lns) == \E i \in DOMAIN lns : blen(lns[i]) > tweet_limit

\* the inner loop's test that ignores the newlines joining the lines
fits_lines_only(chunk, line) ==
  blen(join(chunk)) + blen(line) <= tweet_limit

\* blen('\n'.join(chunk + [lines[0]])) <= 280
fits(chunk, line) == blen(join(Append(chunk, line))) <= tweet_limit

RECURSIVE take(_, _)
\* the inner while loop of chunk_280: lines move from the front of lines to
\* the chunk while the chunk joined with the next line fits; gives the
\* chunk and the lines left
take(chunk, lns) ==
  IF lns # <<>> /\ fits(chunk, lns[1])
  THEN take(Append(chunk, lns[1]), Tail(lns))
  ELSE <<chunk, lns>>

RECURSIVE TextsOfLen(_)
TextsOfLen(n) ==
  IF n = 0 THEN {<<>>}
  ELSE {<<t>> \o rest : t \in {"\n", "w1", "w139", "w140"},
                        rest \in TextsOfLen(n - 1)}

\* the texts of at most n tokens
Texts(n) == UNION {TextsOfLen(k) : k \in 0..n}

\* prove_tweet(tweet_id, tweet_text) is entered, response standing for what
\* prove(tweet_text) returns, a text or None; or long_reply_to_tweet(
\* tweet_id, response) is entered with a text
InitTweet ==
  /\ pc \in {"prove_tweet", "long_reply_to_tweet"}
  /\ response \in Texts(MaxTokens) \cup (IF pc = "prove_tweet" THEN {None} ELSE {})
  /\ tweet_id = 0
  /\ lines = None
  /\ replies = <<>>
  /\ prop = Bottom
  /\ assumptions = <<>>
  /\ assuming = None
  /\ stack = <<>>
  /\ size = 1
  /\ proof = NoProof
  /\ fitch = NoFitch
  /\ NoText

\* prove_tweet up to its call of long_reply_to_tweet:
\* proof = 'Proof:\n\n' + proof raises TypeError for None; a text is never
\* None, so `if proof is None: return` is not taken after it
ProveTweet ==
  /\ pc = "prove_tweet"
  /\ IF response = None
     THEN pc' = "TypeError" /\ UNCHANGED response
     ELSE /\ response' = <<"Proof:", "\n", "\n">> \o response
          /\ pc' = IF response' = None THEN "return" ELSE "long_reply_to_tweet"
  /\ UNCHANGED <<tweet_id, lines, replies>>
  /\ UNCHANGED <<prop, assumptions, assuming, stack, size, proof, fitch, text_vars>>

\* the lines chunk_280 holds when next(chunks) resumes it: string.split on
\* the first resumption
held == IF lines = None THEN split(response) ELSE lines

\* the first next(chunks) of the for loop: chunk_280 raises ValueError
ChunkRaise ==
  /\ pc = "long_reply_to_tweet"
  /\ lines = None
  /\ any_long(split(response))
  /\ pc' = "ValueError"
  /\ UNCHANGED <<tweet_id, response, lines, replies>>
  /\ UNCHANGED <<prop, assumptions, assuming, stack, size, proof, fitch, text_vars>>

\* one turn of the for loop: chunk_280 yields '\n'.join(chunk), and
\* reply_to_tweet posts it as a reply to tweet_id; tweet_id = tweet.id
Reply ==
  /\ pc = "long_reply_to_tweet"
  /\ lines = None => ~any_long(split(response))
  /\ held # <<>>
  /\ LET taken == take(<<>>, held)
         tweet == [id |-> Len(replies) + 1,
                   in_reply_to_status_id |-> tweet_id,
                   status |-> join(taken[1])]
     IN  /\ lines' = taken[2]
         /\ replies' = Append(replies, tweet)
         /\ tweet_id' = tweet.id
  /\ UNCHANGED <<pc, response>>
  /\ UNCHANGED <<prop, assumptions, assuming, stack, size, proof, fitch, text_vars>>

\* `while lines` ends chunk_280, which ends the for loop
Replied ==
  /\ pc = "long_reply_to_tweet"
  /\ lines = <<>>
  /\ pc' = "return"
  /\ UNCHANGED <<tweet_id, response, lines, replies>>
  /\ UNCHANGED <<prop, assumptions, assuming, stack, size, proof, fitch, text_vars>>

NextTweet == ProveTweet \/ ChunkRaise \/ Reply \/ Replied

SpecTweet == InitTweet /\ [][NextTweet]_vars

\* ------------------------------------------- parse.py, prop.py: texts
\* A string is the sequence of its characters.
pretty_OPEN == "("
pretty_CLOSE == ")"

OPEN_chars == {pretty_OPEN, "[", "{"}
CLOSE_chars == {pretty_CLOSE, "]", "}"}
IMPLIES_chars == {pretty_IMPLIES, ">"}
IFF_chars == {pretty_IFF, "="}
OR_chars == {pretty_OR, "|"}
AND_chars == {pretty_AND, "&", "^", "."}
NOT_chars == {pretty_NOT, "~", "-", "!"}
\* BOTTOM_chars of src/parse.py
BOTTOM_chars == {pretty_BOTTOM}
\* BOTTOM_chars of src/src/parse.py
src_BOTTOM_chars == {pretty_BOTTOM, "_"}

BINOPS_chars == IMPLIES_chars \cup IFF_chars \cup OR_chars \cup AND_chars

\* a parsing function returns (node, rest), or raises
returns(node, rest) == [raised |-> "", node |-> node, rest |-> rest]
raises(exception) == [raised |-> exception, node |-> None, rest |-> <<>>]

\* Proposition(kind, *args) of proposition.py
Proposition(kind_, args) == <<kind_>> \o args

\* the kind parse_top of src/parse.py gives an operator, by four `if`s
kind_of(op) ==
  CASE op \in AND_chars     -> "and"
    [] op \in OR_chars      -> "or"
    [] op \in IFF_chars     -> "iff"
    [] op \in IMPLIES_chars -> "implies"

RECURSIVE parse_top(_)
RECURSIVE parse_simple(_)

\* parse_simple of src/parse.py: a negation sign takes parse_top of what
\* follows it; there is no case for bottom
parse_simple(str) ==
  IF str = <<>> THEN raises("IndexError")
  ELSE IF str[1] \in OPEN_chars THEN
    LET inner == parse_top(Tail(str))
    IN  IF inner.raised # "" THEN inner
        ELSE IF inner.rest = <<>> THEN raises("IndexError")
        ELSE IF inner.rest[1] \notin CLOSE_chars THEN raises("AssertionError")
        ELSE returns(inner.node, Tail(inner.rest))
  ELSE IF str[1] \in NOT_chars THEN
    LET child == parse_top(Tail(str))
    IN  IF child.raised # "" THEN child
        ELSE returns(Proposition("not", <<child.node>>), child.rest)
  ELSE returns(Proposition("ident", <<str[1]>>), Tail(str))

\* parse_top of src/parse.py
parse_top(str) ==
  LET l == parse_simple(str)
  IN  IF l.raised # "" THEN l
      ELSE IF Len(l.rest) = 0 \/ l.rest[1] \notin BINOPS_chars THEN l
      ELSE LET op == l.rest[1]
               r == parse_top(Tail(l.rest))
           IN  IF r.raised # "" THEN r
               ELSE returns(Proposition(kind_of(op), <<l.node, r.node>>), r.rest)

\* parse of src/parse.py, the module main.py imports
parse(str) ==
  LET top == parse_top(str)
  IN  IF top.raised # "" THEN top
      ELSE IF top.rest # <<>> THEN raises("AssertionError")
      ELSE top

\* binop_kind of src/src/parse.py
binop_kind(op) ==
  IF op \in IMPLIES_chars THEN "implies"
  ELSE IF op \in IFF_chars THEN "iff"
  ELSE IF op \in OR_chars THEN "or"
  ELSE IF op \in AND_chars THEN "and"
  ELSE "ValueError"

RECURSIVE src_parse_top(_)
RECURSIVE src_parse_simple(_)

\* parse_simple of src/src/parse.py: a negation sign takes parse_simple of
\* what follows it
src_parse_simple(rest) ==
  IF rest = <<>> THEN raises("IndexError")
  ELSE IF rest[1] \in OPEN_chars THEN
    LET inner == src_parse_top(Tail(rest))
    IN  IF inner.raised # "" THEN inner
        ELSE IF inner.rest = <<>> THEN raises("IndexError")
        ELSE IF inner.rest[1] \notin CLOSE_chars THEN raises("ValueError")
        ELSE returns(inner.node, Tail(inner.rest))
  ELSE IF rest[1] \in NOT_chars THEN
    LET child == src_parse_simple(Tail(rest))
    IN  IF child.raised # "" THEN child
        ELSE returns(Not(child.node), child.rest)
  ELSE IF rest[1] \in src_BOTTOM_chars THEN returns(Bottom, Tail(rest))
  ELSE returns(Name(rest[1]), Tail(rest))

\* parse_top of src/src/parse.py
src_parse_top(rest) ==
  LET l == src_parse_simple(rest)
  IN  IF l.raised # "" THEN l
      ELSE IF Len(l.rest) = 0 \/ l.rest[1] \notin BINOPS_chars THEN l
      ELSE LET op == l.rest[1]
               r == src_parse_top(Tail(l.rest))
           IN  IF r.raised # "" THEN r
               ELSE returns(<<binop_kind(op), l.node, r.node>>, r.rest)

\* parse of src/src/parse.py
src_parse(str) ==
  LET no_spaces == SelectSeq(str, LAMBDA c : c # " ")
      top == src_parse_top(no_spaces)
  IN  IF top.raised # "" THEN top
      ELSE IF top.rest # <<>> THEN raises("ValueError")
      ELSE top

\* Prop.sigil
sigil(p) ==
  CASE kind(p) = "implies" -> pretty_IMPLIES
    [] kind(p) = "iff"     -> pretty_IFF
    [] kind(p) = "or"      -> pretty_OR
    [] kind(p) = "and"     -> pretty_AND
    [] kind(p) = "not"     -> pretty_NOT
    [] kind(p) = "bottom"  -> pretty_BOTTOM

RECURSIVE prettify_bare(_, _)
\* a printer that never writes a parenthesis
prettify_bare(p, is_root) ==
  IF kind(p) = "bottom" THEN <<pretty_BOTTOM>>
  ELSE IF kind(p) = "name" THEN <<contained(p)>>
  ELSE IF Len(p) = 2 THEN <<sigil(p)>> \o prettify_bare(contained(p), FALSE)
  ELSE prettify_bare(left(p), FALSE) \o <<" ", sigil(p), " ">>
         \o prettify_bare(right(p), FALSE)

RECURSIVE prettify(_, _)
\* Prop.prettify(is_root)
prettify(p, is_root) ==
  IF kind(p) = "bottom" THEN <<pretty_BOTTOM>>
  ELSE IF kind(p) = "name" THEN <<contained(p)>>
  ELSE IF Len(p) = 2 THEN <<sigil(p)>> \o prettify(contained(p), FALSE)
  ELSE LET pretty_left == prettify(left(p), FALSE)
           pretty_right == prettify(right(p), FALSE)
           text == pretty_left \o <<" ", sigil(p), " ">> \o pretty_right
       IN  IF ~is_root THEN <<"(">> \o text \o <<")">> ELSE text

\* Prop.__str__
str(p) == prettify(p, TRUE)

Chars == {"a", "b", "-", ".", ">", "(", ")", "_"}

RECURSIVE StringsOfLen(_)
StringsOfLen(n) ==
  IF n = 0 THEN {<<>>}
  ELSE {<<c>> \o rest : c \in Chars, rest \in StringsOfLen(n - 1)}

\* the strings of at most n characters
Strings(n) == UNION {StringsOfLen(k) : k \in 0..n}

\* the strings of the tests and of main.py, and longer ones with brackets,
\* spaces and every operator
LongStrings ==
  { <<"-", "a", ".", "b">>,
    <<"a", ">", "b", ">", "c">>,
    <<"-", "(", "a", ">", "-", "a", ")">>,
    <<"-", " ", "a", " ", ".", " ", "b">>,
    <<"-", "-", "a", "&", "b", "|", "c">>,
    <<"!", "[", "a", "=", "b", "]", "^", "#">>,
    <<"~", "_", "|", "{", "a", "}", ".", "b">>,
    <<"a", "=", "b", "|", "c", "&", "a">> }

\* the propositions of the test of prop.py and of the scenarios
LongProps == {Not(And(Not(Name("a")), Name("a")))} \cup Scenarios

\* parse(string) of src/parse.py or of src/src/parse.py is entered with a
\* string, or str(prop) with a proposition
InitText ==
  /\ pc \in {"parse", "src.parse", "str"}
  /\ IF pc = "str"
     THEN string = <<>> /\ prop \in PropsUpTo(MaxPrintOps) \cup LongProps
     ELSE string \in Strings(MaxChars) \cup LongStrings /\ prop = None
  /\ printed = <<>>
  /\ assumptions = <<>>
  /\ assuming = None
  /\ stack = <<>>
  /\ size = 1
  /\ proof = NoProof
  /\ fitch = NoFitch
  /\ NoTweet

\* parse of src/parse.py returns, or raises
Parse ==
  /\ pc = "parse"
  /\ prop' = parse(string).node
  /\ pc' = IF parse(string).raised # "" THEN parse(string).raised ELSE "parsed"
  /\ UNCHANGED <<assumptions, assuming, stack, size, proof, fitch, text_vars, tweet_vars>>

\* parse of src/src/parse.py returns, or raises
SrcParse ==
  /\ pc = "src.parse"
  /\ prop' = src_parse(string).node
  /\ pc' = IF src_parse(string).raised # ""
           THEN src_parse(string).raised ELSE "src.parsed"
  /\ UNCHANGED <<assumptions, assuming, stack, size, proof, fitch, text_vars, tweet_vars>>

\* str(prop)
Str ==
  /\ pc = "str"
  /\ printed' = str(prop)
  /\ pc' = "printed"
  /\ UNCHANGED <<prop, assumptions, assuming, stack, size, proof, fitch, string, tweet_vars>>

NextText == Parse \/ SrcParse \/ Str

SpecText == InitText /\ [][NextText]_vars

\* ================================================================ properties
\* ---------------------------------------------------------------- measures
RECURSIVE proof_size(_)
RECURSIVE sizes(_, _)
RECURSIVE proof_size_rules_only(_)
\* the sizes of subproofs[i..] added up; an entry that is None adds nothing
sizes(subproofs, i) ==
  IF i > Len(subproofs) THEN 0 ELSE proof_size(subproofs[i]) + sizes(subproofs, i + 1)

\* the number of rules of a proof alone, the assumptions left out
proof_size_rules_only(p) ==
  IF p = NoProof THEN 0 ELSE 1 + sizes(p.subproofs, 1)

\* the size of a proof: [number of rules] + [number of assumptions]
proof_size(p) ==
  IF p = NoProof THEN 0
  ELSE 1 + (IF p.assumption # None THEN 1 ELSE 0) + sizes(p.subproofs, 1)

\* the propositional variables of the inputs
Atoms == Names \cup {"c"}

RECURSIVE holds(_, _)
\* the truth value of p when exactly the variables in v are true
holds(p, v) ==
  CASE kind(p) = "name"    -> p[2] \in v
    [] kind(p) = "bottom"  -> FALSE
    [] kind(p) = "not"     -> ~holds(contained(p), v)
    [] kind(p) = "and"     -> holds(left(p), v) /\ holds(right(p), v)
    [] kind(p) = "or"      -> holds(left(p), v) \/ holds(right(p), v)
    [] kind(p) = "implies" -> holds(left(p), v) => holds(right(p), v)
    [] kind(p) = "iff"     -> holds(left(p), v) <=> holds(right(p), v)

\* p is a classical consequence of the list asns
Entails(asns, p) ==
  \A v \in SUBSET Atoms :
    (\A i \in 1..Len(asns) : holds(asns[i], v)) => holds(p, v)

\* x is an element of the list l
In(x, l) == \E i \in 1..Len(l) : l[i] = x

\* the assumptions active inside node p, given those active around it
Active(p, around) == IF p.assumption # None THEN Append(around, p.assumption) ELSE around

\* find_proof has returned a proof (and the proof may have been arranged since)
Returned == pc \in {"returned", "arranged", "raised"}

RECURSIVE fully_built(_)
\* no entry of a subproofs list is None, and every leaf is a reiteration
fully_built(p) ==
  /\ p # NoProof
  /\ IF p.subproofs = <<>> THEN p.kind = "reiteration"
     ELSE \A i \in 1..Len(p.subproofs) : fully_built(p.subproofs[i])

RECURSIVE has_None(_)
\* some entry of a subproofs list in the tree is None
has_None(p) ==
  \E i \in 1..Len(p.subproofs) : p.subproofs[i] = NoProof \/ has_None(p.subproofs[i])

RECURSIVE reiterations_in_scope(_, _)
\* every reiteration node of p claims one of the assumptions active at it
reiterations_in_scope(p, around) ==
  \/ p = NoProof
  \/ /\ p.kind = "reiteration" => In(p.claim, Active(p, around))
     /\ \A i \in 1..Len(p.subproofs) : reiterations_in_scope(p.subproofs[i], Active(p, around))

RECURSIVE discharges(_)
\* some node below the root of p carries an assumption
discharges(p) ==
  \E i \in 1..Len(p.subproofs) :
    /\ p.subproofs[i] # NoProof
    /\ p.subproofs[i].assumption # None \/ discharges(p.subproofs[i])

\* ---------------------------------------------------------------- C1
\* C1: whenever find_proof(goal, assumptions, s), called without `assuming`,
\* returns a node, the size of the node is exactly s.
C1_SizeIsRequested == pc = "returned" => proof_size(proof) = size

\* ---------------------------------------------------------------- C2
\* C2: whenever find_proof(goal, assumptions, s) returns a proof, goal is true
\* under every truth assignment that makes all of assumptions true; with no
\* assumptions the goal is a tautology.
C2_Sound == Returned => Entails(assumptions, prop)

\* a proof was returned that uses a caller's assumption which alone is not the goal
C2_Witness ==
  /\ pc = "returned"
  /\ assumptions # <<>>
  /\ ~In(prop, assumptions)
  /\ proof.kind \notin {"reiteration", "and-elim"}
  /\ ~Entails(<<>>, prop)

\* ---------------------------------------------------------------- C4
\* C4: every entry of every subproofs list of a returned proof tree is a
\* proof node, never None, and every leaf of the tree is a reiteration.
C4_FullyBuilt == pc = "returned" => fully_built(proof)

\* ---------------------------------------------------------------- C5
\* C5: in a proof tree returned by find_proof(goal, assumptions, s) every
\* reiteration node claims an element of the assumptions active at it: the
\* caller's assumptions, plus the assumption of the node and of its ancestors.
C5_ReiterationsInScope == Returned => reiterations_in_scope(proof, assumptions)

\* a returned proof reiterates below a discharged assumption while the caller
\* passed assumptions of its own
C5_Witness ==
  /\ pc = "returned"
  /\ assumptions # <<>>
  /\ discharges(proof)
  /\ ~has_None(proof)

\* ---------------------------------------------------------------- C6
\* sub is a reiteration of f, and f is one of the active assumptions
is_reiteration(sub, f, active) ==
  /\ sub # NoProof
  /\ sub.kind = "reiteration" /\ sub.claim = f /\ sub.assumption = None
  /\ In(f, active)

\* sub proves f and discharges asn (None: discharges nothing)
proves(sub, f, asn) == sub # NoProof /\ sub.claim = f /\ sub.assumption = asn

\* node p alone matches the row of its rule in the table of admissible
\* patterns; active are the assumptions active inside p
row(p, active) ==
  LET sub == p.subproofs
      n == Len(sub)
      G == p.claim
  IN  CASE p.kind = "reiteration"   -> n = 0 /\ In(G, active)
        [] p.kind = "and-intro"     ->
             /\ kind(G) = "and" /\ n = 2
             /\ proves(sub[1], left(G), None) /\ proves(sub[2], right(G), None)
        [] p.kind = "and-elim"      ->
             /\ n = 1 /\ sub[1] # NoProof
             /\ is_reiteration(sub[1], sub[1].claim, active)
             /\ kind(sub[1].claim) = "and"
             /\ G \in {left(sub[1].claim), right(sub[1].claim)}
        [] p.kind = "or-intro"      ->
             /\ kind(G) = "or" /\ n = 1
             /\ proves(sub[1], left(G), None) \/ proves(sub[1], right(G), None)
        [] p.kind = "or-elim"       ->
             /\ n = 3 /\ sub[1] # NoProof
             /\ is_reiteration(sub[1], sub[1].claim, active)
             /\ kind(sub[1].claim) = "or"
             /\ proves(sub[2], G, left(sub[1].claim))
             /\ proves(sub[3], G, right(sub[1].claim))
        [] p.kind = "implies-intro" ->
             /\ kind(G) = "implies" /\ n = 1
             /\ proves(sub[1], right(G), left(G))
        [] p.kind = "implies-elim"  ->
             /\ n = 2 /\ sub[1] # NoProof
             /\ is_reiteration(sub[1], sub[1].claim, active)
             /\ kind(sub[1].claim) = "implies" /\ right(sub[1].claim) = G
             /\ proves(sub[2], left(sub[1].claim), None)
        [] p.kind = "iff-intro"     ->
             /\ kind(G) = "iff" /\ n = 2
             /\ proves(sub[1], right(G), left(G)) /\ proves(sub[2], left(G), right(G))
        [] p.kind = "iff-elim"      ->
             /\ n = 2 /\ sub[1] # NoProof
             /\ is_reiteration(sub[1], sub[1].claim, active)
             /\ kind(sub[1].claim) = "iff"
             /\ \/ left(sub[1].claim) = G /\ proves(sub[2], right(sub[1].claim), None)
                \/ right(sub[1].claim) = G /\ proves(sub[2], left(sub[1].claim), None)
        [] p.kind = "bottom-intro"  ->
             /\ G = Bottom /\ n = 2
             /\ sub[1] # NoProof /\ proves(sub[1], sub[1].claim, None)
             /\ proves(sub[2], Not(sub[1].claim), None)
             /\ \/ is_reiteration(sub[1], sub[1].claim, active)
                \/ is_reiteration(sub[2], sub[2].claim, active)
        [] p.kind = "not-intro"     ->
             /\ kind(G) = "not" /\ n = 1
             /\ proves(sub[1], Bottom, contained(G))
        [] p.kind = "not-elim"      -> n = 1 /\ proves(sub[1], Not(Not(G)), None)
        [] OTHER -> FALSE

RECURSIVE conforms(_, _)
\* every node of p matches the row of its rule
conforms(p, around) ==
  /\ p # NoProof
  /\ row(p, Active(p, around))
  /\ \A i \in 1..Len(p.subproofs) : conforms(p.subproofs[i], Active(p, around))

\* C6: in a returned proof tree the root claims the goal, and every node's
\* rule, kind of claim, and the number, order, claims and discharged
\* assumptions of its subproofs match the rule's row of the table: a
\* bottom-intro has two subproofs claiming Q and ~Q in that order, one of them
\* a reiteration of an assumption; the first subproof of an and-elim, or-elim,
\* implies-elim and iff-elim is a reiteration of an active assumption.
C6_Conforms == pc = "returned" => proof.claim = prop /\ conforms(proof, assumptions)

\* ---------------------------------------------------------------- line trees
\* p is a prefix of q
IsPrefix(p, q) == Len(p) <= Len(q) /\ SubSeq(q, 1, Len(p)) = p

RECURSIVE numbered(_, _)
RECURSIVE numbered_body(_, _, _)
\* the statements of body[i..] in output order
numbered_body(body, i, path) ==
  IF i > Len(body) THEN <<>>
  ELSE numbered(body[i], path) \o numbered_body(body, i + 1, path)

\* the statements of a line tree in output order, each with its path: the
\* line numbers of the assumptions of the blocks around it, outermost first
\* (the assumption line of a block lies inside the block)
numbered(line, path) ==
  CASE line.type = "Stmt"  -> << [stmt |-> line, path |-> path] >>
    [] line.type = "Bunch" -> numbered_body(line.body, 1, path)
    [] line.type = "Block" ->
         LET inner == Append(path, line.assumption.lineno)
         IN  << [stmt |-> line.assumption, path |-> inner] >>
             \o numbered_body(line.body, 1, inner)

\* the arranged proof, once there is one
Lines == numbered(fitch, <<>>)

\* the last line number of the block whose statements have the path inner
last_of(all, inner) ==
  LET inside == {k \in 1..Len(all) : IsPrefix(inner, all[k].path)}
  IN  all[CHOOSE k \in inside : \A j \in inside : j <= k].stmt.lineno

\* the citation cite made by the statement all[i] names an earlier line, and
\* what it names is visible from all[i]: a single line N is a statement at the
\* level of all[i] or of a block around it; a span N-M is a whole block that
\* opens at such a level and is closed before all[i]
cite_visible(all, i, cite) ==
  LET me == all[i]
  IN  IF Len(cite) = 1
      THEN /\ cite[1] < me.stmt.lineno
           /\ \E k \in 1..Len(all) :
                /\ all[k].stmt.lineno = cite[1]
                /\ IsPrefix(all[k].path, me.path)
      ELSE /\ cite[1] < me.stmt.lineno /\ cite[2] < me.stmt.lineno
           /\ \E k \in 1..Len(all) :
                /\ all[k].stmt.lineno = cite[1]
                /\ all[k].stmt.rule = "assumption"
                /\ IsPrefix(SubSeq(all[k].path, 1, Len(all[k].path) - 1), me.path)
                /\ ~IsPrefix(all[k].path, me.path)
                /\ last_of(all, all[k].path) = cite[2]

\* some statement cites a line by its number alone / a block by its span
cites_of_length(all, n) ==
  \E i \in 1..Len(all) : \E k \in 1..Len(all[i].stmt.prereqs) :
    Len(span(all[i].stmt.prereqs[k])) = n

\* ---------------------------------------------------------------- C7
\* C7: the statements of an arranged proof, assumption lines included, read in
\* output order carry the line numbers 1, 2, ..., n: no gap, no duplicate, at
\* every nesting depth.
C7_Consecutive ==
  pc = "arranged" => \A i \in 1..Len(Lines) : Lines[i].stmt.lineno = i

\* an arranged proof with a block inside a block and a line after both
C7_Witness ==
  /\ pc = "arranged"
  /\ \E i \in 1..Len(Lines) : Len(Lines[i].path) >= 2
  /\ Lines[Len(Lines)].path = <<>>

\* ---------------------------------------------------------------- C8
\* C8: every line number a statement of an arranged proof cites, a single
\* line N or both ends of a span N-M, is smaller than the statement's own
\* number and names a statement or block visible from the statement: at its
\* level or in a block around it, never inside a closed sibling block.
C8_CitesVisible ==
  pc = "arranged" =>
    \A i \in 1..Len(Lines) : \A k \in 1..Len(Lines[i].stmt.prereqs) :
      cite_visible(Lines, i, span(Lines[i].stmt.prereqs[k]))

\* an arranged proof with two sibling blocks, a cited span and a cited line
C8_Witness ==
  /\ pc = "arranged"
  /\ cites_of_length(Lines, 1) /\ cites_of_length(Lines, 2)
  /\ Cardinality({k \in 1..Len(Lines) :
                    Lines[k].stmt.rule = "assumption" /\ Len(Lines[k].path) = 1}) >= 2

\* ---------------------------------------------------------------- C9
a_implies_a == Implies(Name("a"), Name("a"))

\* the proof tree of a -> a: implies-intro over a reiteration of a that
\* carries the assumption a
tree_a_implies_a ==
  Proof(None, << Proof(Name("a"), <<>>, Name("a"), "reiteration") >>,
        a_implies_a, "implies-intro")

\* C9 as stated: for the goal a -> a the search returns implies-intro over
\* reiteration(a) under the assumption a, of size 3, and the arranged proof
\* has exactly two numbered lines, `1. a [as]` inside a block and
\* `2. a -> a [->I:1-1]` at top level.
C9_TwoLines ==
  prop = a_implies_a =>
    /\ Returned => proof = tree_a_implies_a /\ proof_size(proof) = 3
    /\ pc = "arranged" =>
         pretty(fitch, 0) =
           << [lineno |-> 1, claim |-> Name("a"), rule |-> "as", cites |-> <<>>, bars |-> 1],
              [lineno |-> 2, claim |-> a_implies_a, rule |-> pretty_IMPLIES \o "I",
               cites |-> << <<1, 1>> >>, bars |-> 0] >>

\* C9 amended: for the goal a -> a the search returns, at size 3,
\* implies-intro over reiteration(a) under the assumption a, of size 3, and
\* the arranged proof has exactly three numbered lines: `1. a [as]` and
\* `2. a [re]` inside a block, and `3. a -> a [->I:1-2]` at top level.
C9_ThreeLines ==
  prop = a_implies_a =>
    /\ Returned => size = 3 /\ proof = tree_a_implies_a /\ proof_size(proof) = 3
    /\ pc = "arranged" =>
         pretty(fitch, 0) =
           << [lineno |-> 1, claim |-> Name("a"), rule |-> "as", cites |-> <<>>, bars |-> 1],
              [lineno |-> 2, claim |-> Name("a"), rule |-> "re", cites |-> <<>>, bars |-> 1],
              [lineno |-> 3, claim |-> a_implies_a, rule |-> pretty_IMPLIES \o "I",
               cites |-> << <<1, 2>> >>, bars |-> 0] >>

\* the proof of a -> a has been arranged
C9_Witness == prop = a_implies_a /\ pc = "arranged" /\ Len(pretty(fitch, 0)) = 3

intro_of(propkind) ==
  CASE propkind = "and"     -> "and-intro"
    [] propkind = "or"      -> "or-intro"
    [] propkind = "implies" -> "implies-intro"
    [] propkind = "iff"     -> "iff-intro"
    [] propkind = "not"     -> "not-intro"
    [] propkind = "bottom"  -> "bottom-intro"
    [] OTHER                -> "none"

IntroRules ==
  {"and-intro", "or-intro", "implies-intro", "iff-intro", "not-intro", "bottom-intro"}

\* C11: the line with the highest number of the arranged proof of goal is a
\* top-level statement, comes last, claims goal and carries the rule of the
\* root node; when the root is an introduction, it is the introduction rule
\* of the main connective of goal.
C11_LastLine ==
  pc = "arranged" =>
    \A i \in 1..Len(Lines) :
      (\A j \in 1..Len(Lines) : Lines[j].stmt.lineno <= Lines[i].stmt.lineno) =>
        /\ i = Len(Lines)
        /\ Lines[i].path = <<>>
        /\ Lines[i].stmt.claim = prop
        /\ Lines[i].stmt.rule = proof.kind
        /\ proof.kind \in IntroRules => proof.kind = intro_of(kind(prop))

\* the arranged proof of an equivalence, ended by iff-intro after two blocks
C11_Witness ==
  /\ pc = "arranged"
  /\ kind(prop) = "iff"
  /\ Lines[Len(Lines)].stmt.rule = "iff-intro"
  /\ Len(Lines) >= 5

\* ---------------------------------------------------------------- C12
\* the first subproof of the returned root is a reiteration: when arrange
\* meets it, parent_context and lines are both empty, so no visible
\* statement has its claim
MeetsUnfoundReiteration ==
  /\ Returned
  /\ Len(proof.subproofs) >= 1
  /\ proof.subproofs[1] # NoProof
  /\ proof.subproofs[1].kind = "reiteration"

\* the lines arrange emits for the reiteration r, no visible line having its
\* claim: a statement `re` without citations, behind the assumption line
\* when r carries an assumption
lines_of_unfound(r) ==
  IF r.assumption = None
  THEN << [lineno |-> 1, claim |-> r.claim, rule |-> "re", cites |-> <<>>, bars |-> 0] >>
  ELSE << [lineno |-> 1, claim |-> r.assumption, rule |-> "as", cites |-> <<>>, bars |-> 1],
          [lineno |-> 2, claim |-> r.claim, rule |-> "re", cites |-> <<>>, bars |-> 1] >>

FailsUpToCap ==
  /\ ~Entails(<<>>, prop)
  /\ \A s \in 1..MaxFindSize : find_proof(prop, <<>>, s, None) = NoProof

\* C13: when prove runs the driver with the cap max_size = 25 and find_proof
\* fails at every size up to the cap, the driver returns None and prove
\* returns None: once the call in prove is over, prove has returned None and
\* has not raised.
C13_ReturnsNone == FailsUpToCap /\ pc # "prove" => pc = "none"

\* ---------------------------------------------------------------- C14
\* the returned proof is the proof of the first generator, in the order of
\* the searchers, that succeeds for the goal at the size of the call
FirstGeneratorWins ==
  \E k \in 1..12 :
    /\ generator(k, prop, assumptions, size) = proof
    /\ \A j \in 1..(k - 1) : generator(j, prop, assumptions, size) = NoProof

\* every size below the current one was tried and gave no proof
SmallerSizesFailed ==
  \A s \in 1..(size - 1) : find_proof(prop, <<>>, s, None) = NoProof

\* C14: prove_proposition calls find_proof(goal, [], s) for s = 1, 2, 3, ...
\* in increasing order without skipping a size and returns the proof of the
\* first size at which find_proof succeeds; within a size find_proof returns
\* the proof of the first generator that succeeds in the fixed order.
C14_FirstSuccess ==
  /\ [](pc = "loop" => size >= 1 /\ SmallerSizesFailed)
  /\ [](Returned => SmallerSizesFailed /\ FirstGeneratorWins)
  /\ [][pc = "loop" => \/ pc' = "loop" /\ size' = size + 1
                       \/ pc' = "returned" /\ size' = size
                          /\ proof' = find_proof(prop, <<>>, size, None)]_vars

\* a proof returned after six sizes failed, by a generator late in the order
C14_Witness == pc = "returned" /\ size = 7 /\ proof.kind = "implies-intro"

\* ---------------------------------------------------------------- C15
\* C15: when prove(text) returns None, prove_tweet returns without posting
\* a reply and without raising.
C15_ReturnsSilently ==
  response = None /\ pc \notin {"prove_tweet", "prove", "loop", "call"}
    => pc = "return" /\ replies = <<>>

\* ---------------------------------------------------------------- C16
\* long_reply_to_tweet is running chunk_280 on response, or has run it
Chunking == pc \in {"long_reply_to_tweet", "return", "ValueError"}

\* the chunks yielded so far
chunks == [i \in DOMAIN replies |-> replies[i].status]

RECURSIVE lines_of(_)
\* the lines of the texts, in order
lines_of(texts) ==
  IF texts = <<>> THEN <<>> ELSE split(Head(texts)) \o lines_of(Tail(texts))

\* C16: for a text with no line over 280 bytes chunk_280 terminates (each
\* resumption takes at least one of the finitely many lines, or ends),
\* every chunk is at most 280 bytes and is made of whole consecutive lines,
\* and the chunks joined with newlines are the text; for a text with a line
\* over 280 bytes ValueError is raised before any chunk is yielded.
C16_Chunks ==
  /\ [](Chunking /\ ~any_long(split(response)) =>
          /\ pc # "ValueError"
          /\ \A i \in DOMAIN chunks : blen(chunks[i]) <= tweet_limit
          /\ lines_of(chunks) \o held = split(response)
          /\ pc = "return" => join(chunks) = response)
  /\ [](Chunking /\ any_long(split(response)) =>
          replies = <<>> /\ pc # "return")
  /\ [][pc = "long_reply_to_tweet" =>
          IF any_long(split(response))
          THEN pc' = "ValueError" /\ replies' = <<>>
          ELSE \/ Len(lines') < Len(held) /\ Len(replies') = Len(replies) + 1
               \/ held = <<>> /\ pc' = "return"]_vars

\* a text sent as two chunks, the first one of two lines
C16_Witness ==
  /\ pc = "return"
  /\ Len(replies) = 2
  /\ Len(split(chunks[1])) = 2
  /\ blen(chunks[1]) = tweet_limit

\* ---------------------------------------------------------------- C17
\* the names the strings are written with
IdentChars == {"a", "b", "c"}

\* the parse of a text by the parser that parsed string
reparse(text) == IF pc = "parsed" THEN parse(text) ELSE src_parse(text)

\* the identifier of a parsed name
ident(node) == node[2]

\* C17: negation binds tighter than every binary operator, and the binary
\* operators are right-associative with one precedence: a string -x o T
\* (x a name, o a binary operator) parses as o(Not(x), parse(T)), and a
\* string x o y o' T as o(x, o'(y, parse(T))); so '-a.b' is And(Not(a), b)
\* and 'a>b>c' is Implies(a, Implies(b, c)).
C17_NegationBindsTighter ==
  pc \in {"parsed", "src.parsed"} =>
    LET s == string
        n == Len(s)
    IN  /\ (n >= 4 /\ s[1] \in NOT_chars /\ s[2] \in IdentChars
              /\ s[3] \in BINOPS_chars) =>
             /\ kind(prop) = binop_kind(s[3])
             /\ kind(left(prop)) = "not"
             /\ ident(contained(left(prop))) = s[2]
             /\ right(prop) = reparse(SubSeq(s, 4, n)).node
        /\ (n >= 5 /\ s[1] \in IdentChars /\ s[2] \in BINOPS_chars
              /\ s[3] \in IdentChars /\ s[4] \in BINOPS_chars) =>
             /\ kind(prop) = binop_kind(s[2])
             /\ ident(left(prop)) = s[1]
             /\ kind(right(prop)) = binop_kind(s[4])
             /\ ident(left(right(prop))) = s[3]
             /\ right(right(prop)) = reparse(SubSeq(s, 5, n)).node

\* ---------------------------------------------------------------- C18
RECURSIVE binary_applications(_)
\* the number of binary applications in a proposition
binary_applications(p) ==
  IF kind(p) \in BinaryKinds
  THEN 1 + binary_applications(left(p)) + binary_applications(right(p))
  ELSE IF kind(p) = "not" THEN binary_applications(contained(p))
  ELSE 0

\* the number of times a character occurs in a text
occurrences(c, text) == Cardinality({i \in DOMAIN text : text[i] = c})

\* the binary applications of a proposition that are not its root
non_root_binary(p) ==
  binary_applications(p) - (IF kind(p) \in BinaryKinds THEN 1 ELSE 0)

\* C18: str(prop) has one pair of parentheses for every binary application
\* that is not the root and no other; Not prints as its glyph directly
\* followed by its operand, a name as its identifier, Bottom as the falsum
\* glyph; the print reads back as the proposition; Not(And(Not(a), a))
\* prints as -(-a & a) in the glyphs of the model.
C18_Parentheses ==
  pc = "printed" =>
    /\ occurrences(pretty_OPEN, printed) = non_root_binary(prop)
    /\ occurrences(pretty_CLOSE, printed) = non_root_binary(prop)
    /\ kind(prop) = "name" => printed = <<contained(prop)>>
    /\ kind(prop) = "bottom" => printed = <<pretty_BOTTOM>>
    /\ kind(prop) = "not" =>
         /\ printed[1] = pretty_NOT
         /\ kind(contained(prop)) \in BinaryKinds => printed[2] = pretty_OPEN
         /\ kind(contained(prop)) = "name" => printed[2] = contained(contained(prop))
    /\ kind(prop) \in BinaryKinds =>
         printed[1] # pretty_OPEN \/ kind(left(prop)) \in BinaryKinds
    /\ src_parse(printed) = returns(prop, <<>>)
    /\ prop = Not(And(Not(Name("a")), Name("a"))) =>
         printed = <<pretty_NOT, pretty_OPEN, pretty_NOT, "a", " ",
                     pretty_AND, " ", "a", pretty_CLOSE>>

\* the proposition of the test of prop.py has been printed
C18_Witness ==
  /\ pc = "printed"
  /\ prop = Not(And(Not(Name("a")), Name("a")))
  /\ Len(printed) = 9

\* ---------------------------------------------------------------- C19
\* the statement cites, at place k, a block that opens with the assumption
\* of the claim asn
cites_block(stmt, k, asn) ==
  /\ k <= Len(stmt.prereqs)
  /\ stmt.prereqs[k].type = "Block"
  /\ stmt.prereqs[k].assumption.rule = "assumption"
  /\ stmt.prereqs[k].assumption.claim = asn
  /\ Len(span(stmt.prereqs[k])) = 2

\* C19: every subproof that carries an assumption F appears as a block
\* whose first line is the assumption statement of F, and the statement of
\* the parent rule (implies-intro, not-intro, iff-intro, or-elim) cites the
\* block as a span; it never cites a single line in place of the subproof.
C19_BlocksCited ==
  pc = "arranged" =>
    \A i \in 1..Len(Lines) :
      LET stmt == Lines[i].stmt
      IN  /\ stmt.rule = "implies-intro" =>
               Len(stmt.prereqs) = 1 /\ cites_block(stmt, 1, left(stmt.claim))
          /\ stmt.rule = "not-intro" =>
               Len(stmt.prereqs) = 1 /\ cites_block(stmt, 1, contained(stmt.claim))
          /\ stmt.rule = "iff-intro" =>
               /\ Len(stmt.prereqs) = 2
               /\ cites_block(stmt, 1, left(stmt.claim))
               /\ cites_block(stmt, 2, right(stmt.claim))
          /\ stmt.rule = "or-elim" =>
               /\ Len(stmt.prereqs) = 3
               /\ stmt.prereqs[1].type = "Stmt"
               /\ kind(stmt.prereqs[1].claim) = "or"
               /\ cites_block(stmt, 2, left(stmt.prereqs[1].claim))
               /\ cites_block(stmt, 3, right(stmt.prereqs[1].claim))

\* ---------------------------------------------------------------- C20
\* a statement made by a rule, not an assumption
derived(line) == line.stmt.rule # "assumption"

\* two derived statements of the output with one claim, the earlier one
\* visible from the later one
twice(j, k) ==
  /\ j < k
  /\ derived(Lines[j]) /\ derived(Lines[k])
  /\ IsPrefix(Lines[j].path, Lines[k].path)
  /\ Lines[j].stmt.claim = Lines[k].stmt.claim

RECURSIVE support(_)
\* the statements a statement rests on: the statements it cites, those of
\* the blocks it cites, and the statements these rest on
support(stmt) ==
  UNION { LET cited == flatten(<<stmt.prereqs[i]>>, 1)
          IN  UNION {{cited[n]} \cup support(cited[n]) : n \in 1..Len(cited)}
          : i \in 1..Len(stmt.prereqs) }

C21_AssumingInScope ==
  /\ [](pc = "returned" /\ assuming # None =>
          /\ proof.assumption = assuming
          /\ SetAssumption(proof, None)
               = find_proof(prop, Append(assumptions, assuming), size, None)
          /\ reiterations_in_scope(proof, assumptions)
          /\ Entails(Append(assumptions, assuming), prop))
  /\ [](pc = "none" /\ assuming # None =>
          find_proof(prop, Append(assumptions, assuming), size, None) = NoProof)
  /\ [][assumptions' = assumptions]_vars

\* a call with an assumption returns a proof out of reach without it, one
\* whose two subproofs each assume something of their own
C21_Witness ==
  /\ pc = "returned"
  /\ assuming # None
  /\ ~In(assuming, assumptions)
  /\ find_proof(prop, assumptions, size, None) = NoProof
  /\ \E i, j \in 1..Len(proof.subproofs) :
       /\ i < j
       /\ proof.subproofs[i].assumption # None
       /\ proof.subproofs[j].assumption # None
       /\ proof.subproofs[i].assumption # proof.subproofs[j].assumption

\* C22: for a goal A | B and a size s >= 2, OR_INTRO succeeds exactly when A
\* or B has a proof of size s - 1 under the same assumptions, and it then
\* returns an or-intro node whose single subproof is that proof; A | B with A
\* among the assumptions is proven by OR_INTRO at size 2.
C22_OrIntro ==
  pc \in {"returned", "none"} /\ kind(prop) = "or" /\ size >= 2 =>
    LET lproof == find_proof(left(prop), assumptions, size - 1, None)
        rproof == find_proof(right(prop), assumptions, size - 1, None)
        node   == OR_INTRO(prop, assumptions, size)
    IN  /\ node # NoProof <=> lproof # NoProof \/ rproof # NoProof
        /\ node # NoProof =>
             /\ node.kind = "or-intro"
             /\ node.subproofs \in {<<lproof>>, <<rproof>>}
        /\ size = 2 /\ In(left(prop), assumptions) => node # NoProof

\* ---------------------------------------------------------------- C23
\* the minimum size of the k-th searcher (@min_size; @exact_size(1) and the
\* test in REITERATION count as a minimum of 1)
min_size(k) ==
  CASE k \in {2, 6, 7, 9, 10, 11} -> 3
    [] k \in {4, 12} -> 2
    [] k \in {5, 8} -> 5
    [] OTHER -> 1

\* the kind of goal the k-th searcher requires (@prop_kind), "any" if none
prop_kind(k) ==
  CASE k = 2 -> "and" [] k = 4 -> "or" [] k = 6 -> "implies" [] k = 8 -> "iff"
    [] k = 10 -> "bottom" [] k = 11 -> "not" [] OTHER -> "any"

\* the assumptions the searchers of the running call are given
running_scope ==
  IF running.call.assuming # None
  THEN Append(running.call.assumptions, running.call.assuming)
  ELSE running.call.assumptions

\* the calls each call on the stack has still to wait for
unreturned == [i \in 1..Len(stack) |-> Len(stack[i].calls) - stack[i].at]

\* m is below n in the order of the search: m goes deeper than n, or at the
\* first call where they differ m waits for fewer calls. The order is
\* well-founded on sequences of naturals of bounded length.
below(m, n) ==
  \/ Len(m) > Len(n) /\ SubSeq(m, 1, Len(n)) = n
  \/ \E i \in 1..Len(m) :
       /\ i <= Len(n)
       /\ \A j \in 1..(i - 1) : m[j] = n[j]
       /\ m[i] < n[i]

\* C23: every call find_proof(goal, assumptions, s) terminates: the nesting of
\* calls is no deeper than s (1 when s <= 0), no call waits for a negative
\* number of calls, and every step of the search either ends it or moves it
\* down the well-founded order `below`. A call with s <= 0 returns None
\* without invoking a generator; a generator whose kind check or minimum size
\* is unmet returns None without calling find_proof; every call of find_proof
\* made by a generator has a size strictly smaller than the size the generator
\* received. (The searcher whose proof find_proof returns is the first of the
\* searchers called that returns one.)
C23_Terminates ==
  /\ [](/\ Len(stack) <= (IF size >= 1 THEN size ELSE 1)
        /\ \A i \in 1..Len(stack) : unreturned[i] >= 0
        /\ stack = <<>> <=> pc \in {"none", "returned"})
  /\ [][stack' = <<>> \/ below(unreturned', unreturned)]_vars
  /\ [](stack # <<>> /\ running.call.size <= 0 =>
          /\ searchers_called(running.call.prop, running.call.assumptions,
                              running.call.size, running.call.assuming) = {}
          /\ running.calls = <<>>
          /\ result(running.call) = NoProof)
  /\ [](stack # <<>> =>
          \A k \in 1..12 :
            result(Call(running.call.prop, running_scope, running.call.size, None)).kind
              = searcher_kind(k)
            <=> /\ k \in searchers_called(running.call.prop, running.call.assumptions,
                                          running.call.size, running.call.assuming)
                /\ generator(k, running.call.prop, running_scope, running.call.size) # NoProof)
  /\ [](stack # <<>> =>
          \A k \in 1..12 :
            \/ running.call.size < min_size(k)
            \/ prop_kind(k) \notin {"any", kind(running.call.prop)}
            => /\ searcher_calls(k, running.call.prop, running_scope, running.call.size) = <<>>
               /\ generator(k, running.call.prop, running_scope, running.call.size) = NoProof)
  /\ [][Len(stack') > Len(stack) =>
          /\ running.call.size > 0
          /\ stack'[Len(stack')].call.size < running.call.size]_vars

\* a search of the largest size has returned a proof found three calls deep
C23_Witness ==
  /\ stack = <<>>
  /\ pc = "returned"
  /\ size = MaxFindSize
  /\ \E i \in 1..Len(proof.subproofs) : proof.subproofs[i].subproofs # <<>>

====
